---- MODULE Spec2Model ----
(***************************************************************************)
(* A model of conducto/compose.py and conducto/pipeline.py:                *)
(*   - anchored / stage: the rewrite of a docker-compose document,         *)
(*   - examine / ip / inspect: the collection of runtime facts into the    *)
(*     pipeline-scoped key-value store,                                    *)
(*   - updown / all_tests / lazy_tests: the tree of pipeline nodes and its *)
(*     execution by the pipeline runtime.                                  *)
(*                                                                         *)
(* Text is a sequence of tokens.  The separators ".", "/", ":" and "_" are *)
(* always tokens of their own, so slicing by two characters (s[0:2]),      *)
(* splitting on ":" and the substring test act on tokens exactly as the    *)
(* Python operations act on the characters.  A dict is a function whose    *)
(* DOMAIN is its key set, so a missing key is a key outside the DOMAIN.    *)
(***************************************************************************)
EXTENDS Integers, Sequences, FiniteSets, TLC

VARIABLES
    \* ---- anchored / stage
    pc,             \* position of the caller of anchored / stage
    d,              \* the document object handed to anchored, as the caller sees it
    orig,           \* the value d had before the call
    path,           \* the path of docker-compose.yml handed to anchored
    result,         \* the document anchored returned
    again,          \* the document anchored returned when applied to result
    volumes,        \* the volumes argument of stage
    stagedFile,     \* the content of .docker-compose.yml.g once written
    \* ---- examine / ip
    store,          \* co.data.pipeline: key -> stored value
    epc,            \* position of examine: "idle", "examining", "raised"; "called" after ip
    service_names,  \* examine's service_names in the run under way
    seen,           \* names of the containers the run has gone through
    runs,           \* number of examine runs started
    writes,         \* keys written by the latest pass of examine's outer loop
    lastInspection, \* inspection of the container of that pass
    lastService,    \* the service name it matched, <<>> when none
    latest,         \* service name -> last inspection matched to it in the latest run
    ipRun,          \* service name -> the run that last wrote its ip facts
    ipFrom,         \* service name -> the inspection those ip facts were computed from
    ipQuery,        \* the stored inspection read by the latest direct call of ip
    ipResult,       \* what that call returned or raised
    \* ---- the pipeline
    phase,          \* "unbuilt", "built", "running", "over"
    st2path,        \* the argument updown was given
    tree,           \* node name -> node
    status,         \* node name -> "pending", "running", "done", "error"
    ran,            \* the nodes the runtime has started: for an Exec, its command has run
    builderCalls    \* number of calls of lazy_tests

anchorVars == <<pc, d, orig, path, result, again, volumes, stagedFile>>
examineVars == <<store, epc, service_names, seen, runs, writes, lastInspection,
                 lastService, latest, ipRun, ipFrom, ipQuery, ipResult>>
pipelineVars == <<phase, st2path, tree, status, ran, builderCalls>>
vars == <<anchorVars, examineVars, pipelineVars>>

\* ------------------------------------------------------------------ bounds

\* longest volumes list of a service in the documents explored
MaxVolumes == 1

\* ------------------------------------------------------------------ text

Min(a, b) == IF a < b THEN a ELSE b

\* s[0:2]
Prefix2(s) == SubSeq(s, 1, Min(2, Len(s)))

\* s[2:]
Drop2(s) == SubSeq(s, 3, Len(s))

\* s.split(sep)
RECURSIVE Split(_, _)
Split(s, sep) ==
    IF \E i \in 1..Len(s) : s[i] = sep
    THEN LET i == CHOOSE k \in 1..Len(s) :
                      s[k] = sep /\ \A j \in 1..(k - 1) : s[j] # sep
         IN  <<SubSeq(s, 1, i - 1)>> \o Split(SubSeq(s, i + 1, Len(s)), sep)
    ELSE <<s>>

\* sep.join(items)
RECURSIVE Join(_, _)
Join(items, sep) ==
    IF items = <<>> THEN <<>>
    ELSE IF Len(items) = 1 THEN items[1]
    ELSE items[1] \o <<sep>> \o Join(Tail(items), sep)

\* sub in s
Contains(sub, s) ==
    \E i \in 0..(Len(s) - Len(sub)) : SubSeq(s, i + 1, i + Len(sub)) = sub

\* dict[k] = v
SetKey(f, k, v) == [x \in DOMAIN f \cup {k} |-> IF x = k THEN v ELSE f[x]]

\* the empty dict
EmptyDict == [x \in {} |-> {}]

\* ------------------------------------------------------------------ anchored

\* staged = ".docker-compose.yml.g"
staged == <<".", "docker-compose", ".", "yml", ".", "g">>

\* Path(path).parent, for a normalised path: everything before the last "/"
PathParent(p) ==
    LET slashes == {i \in 1..Len(p) : p[i] = "/"}
    IN  IF slashes = {} THEN <<".">>
        ELSE LET last == CHOOSE i \in slashes : \A j \in slashes : j <= i
             IN  IF last = 1 THEN <<"/">> ELSE SubSeq(p, 1, last - 1)

\* daemonside = items[0]
DaemonSide(volume) == Split(volume, ":")[1]

\* as ContainerSide, keeping the container path alone: items[1]
ContainerSide_PathOnly(volume) ==
    IF Len(Split(volume, ":")) > 1 THEN Split(volume, ":")[2] ELSE <<>>

\* containerside = ":".join(items[1:])
ContainerSide(volume) == Join(Tail(Split(volume, ":")), ":")

\* the body of the loop over a service's volumes: the string left at position i
AnchorVolume(volume, dir) ==
    IF Prefix2(DaemonSide(volume)) = <<".", "/">>
    THEN Join(<<dir \o <<"/">> \o Drop2(DaemonSide(volume)), ContainerSide(volume)>>, ":")
    ELSE volume

\* hack 1 on one service definition; a missing "volumes" raises KeyError, which
\* is caught and passed over
Hack1(service_def, dir) ==
    IF "volumes" \in DOMAIN service_def
    THEN SetKey(service_def, "volumes",
                [i \in 1..Len(service_def["volumes"]) |->
                    AnchorVolume(service_def["volumes"][i], dir)])
    ELSE service_def

\* conducto_network["external"] = {"name": "conducto_network_$CONDUCTO_PIPELINE_ID"}
ConductoExternal == [name |-> <<"conducto_network_", "$CONDUCTO_PIPELINE_ID">>]

\* as AppendConducto, without the test for "conducto" in the list
AppendConducto_Always(service_networks) == Append(service_networks, "conducto")

\* service_networks.append("conducto") unless it is in the list
AppendConducto(service_networks) ==
    IF \E i \in 1..Len(service_networks) : service_networks[i] = "conducto"
    THEN service_networks
    ELSE Append(service_networks, "conducto")

\* hack 2 on one service definition: setdefault("networks", []) then the append
Hack2(service_def) ==
    SetKey(service_def, "networks",
           AppendConducto(IF "networks" \in DOMAIN service_def
                          THEN service_def["networks"] ELSE <<>>))

\* hack 2 on the top-level networks dict:
\* setdefault("conducto", {}) then ["external"] = ...
Hack2Networks(networks) ==
    SetKey(networks, "conducto",
           SetKey(IF "conducto" \in DOMAIN networks THEN networks["conducto"]
                  ELSE EmptyDict,
                  "external", ConductoExternal))

\* anchored(content, path).  content.copy() is a shallow copy: the new dict has
\* its own keys, and every value is the very object the caller's dict holds.
\* So each write below a top-level key is a write to the caller's document as
\* well; only the top-level key "networks", when setdefault has to add it, is
\* added to the copy alone.  ret is the returned document, arg the caller's
\* document after the call.
Anchored(content, p) ==
    LET dir == PathParent(p)
        services1 == [s \in DOMAIN content["services"] |->
                          Hack1(content["services"][s], dir)]
        services2 == [s \in DOMAIN services1 |-> Hack2(services1[s])]
        networks2 == Hack2Networks(IF "networks" \in DOMAIN content
                                   THEN content["networks"] ELSE EmptyDict)
        ret == SetKey(SetKey(content, "services", services2), "networks", networks2)
    IN  [ret |-> ret,
         arg |-> IF "networks" \in DOMAIN content
                 THEN ret
                 ELSE SetKey(content, "services", services2)]

\* ------------------------------------------------------------------ stage

\* get_dev_mounts(st2_path): one mount string per st2 component
DevComponents == {"st2api", "st2reactor", "st2rulesengine", "st2common", "st2client"}

image_parent == <<"/", "opt", "/", "stackstorm", "/", "st2", "/", "lib", "/",
                  "python3", ".", "6", "/", "site-packages">>

get_dev_mounts(dev_path) ==
    [c \in DevComponents |->
        dev_path \o <<"/", c, "/", c, ":">> \o image_parent \o <<"/", c>>]

\* stage(host_compose, image_compose=None, volumes={}) with the source file in
\* place: read it, mutate it with anchored, write the result next to it.  The
\* volumes argument is not read anywhere in the body.
Stage(content, host_compose, vols) == Anchored(content, host_compose).ret

\* ------------------------------------------------------------------ inputs

ServiceNames == {"st2api", "redis"}

MountStrings ==
    { <<".", "/", "data", ":", "/", "data">>,
      <<"/", "abs", ":", "/", "data">>,
      <<"vol", ":", "/", "data">>,
      <<".", "/", "data", ":", "/", "data", ":", "ro">>,
      <<".", "/", "data">> }

RECURSIVE SeqsUpTo(_, _)
SeqsUpTo(S, n) ==
    IF n = 0 THEN {<<>>}
    ELSE LET shorter == SeqsUpTo(S, n - 1)
         IN  shorter \cup {Append(q, x) : q \in shorter, x \in S}

\* lists of network names, without repetition as the compose format requires
NetworkLists == { <<"conducto">>, <<"backend">>, <<"backend", "conducto">> }

ServiceDefs ==
    LET vols == {EmptyDict} \cup {[volumes |-> v] : v \in SeqsUpTo(MountStrings, MaxVolumes)}
        nets == {EmptyDict} \cup {[networks |-> n] : n \in NetworkLists}
    IN  {[k \in DOMAIN v \cup DOMAIN n |-> IF k \in DOMAIN v THEN v[k] ELSE n[k]] :
            v \in vols, n \in nets}

TopNetworks ==
    { [backend |-> EmptyDict], [conducto |-> [driver |-> "bridge"]] }

Documents ==
    LET svcs == UNION {[S -> ServiceDefs] : S \in SUBSET ServiceNames}
    IN  {[services |-> s] : s \in svcs}
        \cup {[services |-> s, networks |-> n] : s \in svcs, n \in TopNetworks}

ComposePaths ==
    { <<"/", "host", "/", "proj", "/", "docker-compose", ".", "yml">>,
      <<"/", "docker-compose", ".", "yml">> }

DevPaths == { <<"/", "dev", "/", "st2">> }

NoDocument == [services |-> EmptyDict, none |-> TRUE]

\* the pipeline variables before updown, and in a specification without it
PipelineUnused ==
    /\ phase = "unbuilt"
    /\ st2path = <<>>
    /\ tree = EmptyDict
    /\ status = EmptyDict
    /\ ran = {}
    /\ builderCalls = 0

\* the anchored / stage variables in a specification without them
AnchorUnused ==
    /\ pc = "unused" /\ d = NoDocument /\ orig = NoDocument /\ path = <<>>
    /\ result = NoDocument /\ again = NoDocument /\ volumes = EmptyDict
    /\ stagedFile = NoDocument

\* ------------------------------------------------------------------ examine

\* most examine runs (successive "up" cycles of one pipeline) explored
MaxRuns == 2

\* most containers docker-compose ps -q lists in one run
MaxContainers == 2

\* os.environ["CONDUCTO_PIPELINE_ID"]
pipeline_id == <<"id7">>

\* f"/services/{service_name}/..."
Key(service_name, kind) == <<"/", "services", "/">> \o service_name \o <<"/">> \o kind

INSPECT == <<"inspect">>
STATUS == <<"status">>
IP_OTHERS == <<"ip", "/", "others">>
IP_CONDUCTO == <<"ip", "/", "conducto">>

\* as ConductoIp, keeping the first matching network instead of the last
ConductoIp_First(networks, pid) ==
    LET matching == {i \in 1..Len(networks) : Contains(pid, networks[i].name)}
    IN  IF matching = {} THEN ""
        ELSE networks[CHOOSE i \in matching : \A j \in matching : i <= j].IPAddress

\* the pass of ip's loop over data["NetworkSettings"]["Networks"].items(), in
\* the order of the record: conducto is overwritten by each matching network
ConductoIp(networks, pid) ==
    LET matching == {i \in 1..Len(networks) : Contains(pid, networks[i].name)}
    IN  IF matching = {} THEN ""
        ELSE networks[CHOOSE i \in matching : \A j \in matching : j <= i].IPAddress

RECURSIVE OthersIps(_, _)
OthersIps(networks, pid) ==
    IF networks = <<>> THEN <<>>
    ELSE IF Contains(pid, Head(networks).name)
         THEN OthersIps(Tail(networks), pid)
         ELSE <<Head(networks).IPAddress>> \o OthersIps(Tail(networks), pid)

\* ip(service_name) over the inspection inspect(service_name) loads from the
\* store.  None and "" are both false in "if not conducto", so one value stands
\* for both.  The exception carries the identifier and the network names.
Ip(st, service_name, pid) ==
    LET data == st[Key(service_name, INSPECT)]
        networks == data.NetworkSettings.Networks
        conducto == ConductoIp(networks, pid)
    IN  IF conducto = ""
        THEN [raised |-> TRUE, pipeline_id |-> pid,
              network_names |-> [i \in 1..Len(networks) |-> networks[i].name]]
        ELSE [raised |-> FALSE, conducto |-> conducto,
              others |-> OthersIps(networks, pid)]

\* the inner loop of examine up to its break: the first service name that is a
\* substring of the container name, 0 when there is none
FirstMatch(names, container_name) ==
    LET hits == {i \in 1..Len(names) : Contains(names[i], container_name)}
    IN  IF hits = {} THEN 0 ELSE CHOOSE i \in hits : \A j \in hits : i <= j

\* _store_container_info(f"/services/{service_name}/inspect", inspection)
StoreInspect(st, service_name, inspection) ==
    SetKey(st, Key(service_name, INSPECT), inspection)

\* as StoreStatus, with the write left out
StoreStatus_Skipped(st, service_name, inspection) == st

\* _store_container_info(f"/services/{service_name}/status", container_status)
StoreStatus(st, service_name, inspection) ==
    SetKey(st, Key(service_name, STATUS), inspection.State.Status)

\* as RemainsUp, without the test of the status
RemainsUp_Always(container_status) == TRUE

\* if container_status == "running"
RemainsUp(container_status) == container_status = "running"

\* one pass of examine's outer loop, for the container with this inspection.
\* Writes happen in the order inspect, status, ip/others, ip/conducto; an
\* exception of ip leaves the earlier writes in place and ends examine.
ExamineContainer(st, names, inspection, pid) ==
    LET m == FirstMatch(names, inspection.Name)
    IN  IF m = 0
        THEN [store |-> st, writes |-> <<>>, raised |-> FALSE, service |-> <<>>]
        ELSE
          LET service_name == names[m]
              st2 == StoreStatus(StoreInspect(st, service_name, inspection),
                                 service_name, inspection)
              w2 == <<Key(service_name, INSPECT), Key(service_name, STATUS)>>
          IN  IF RemainsUp(inspection.State.Status)
              THEN LET service_ips == Ip(st2, service_name, pid)
                   IN  IF service_ips.raised
                       THEN [store |-> st2, writes |-> w2, raised |-> TRUE,
                             service |-> service_name]
                       ELSE [store |-> SetKey(SetKey(st2,
                                          Key(service_name, IP_OTHERS), service_ips.others),
                                          Key(service_name, IP_CONDUCTO), service_ips.conducto),
                             writes |-> w2 \o <<Key(service_name, IP_OTHERS),
                                                Key(service_name, IP_CONDUCTO)>>,
                             raised |-> FALSE, service |-> service_name]
              ELSE [store |-> st2, writes |-> w2, raised |-> FALSE,
                    service |-> service_name]

\* ---- what docker and docker-compose report

st2api == <<"st2", "api">>
st2 == <<"st2">>
redis == <<"redis">>

\* docker-compose ps --services: at least one service, names without repetition
ServiceNameLists == { <<st2api, redis>>, <<st2, st2api, redis>> }

\* container names <project>_<service>_<n>
ServiceContainers ==
    { <<"proj", "_">> \o st2api \o <<"_", "1">>,
      <<"proj", "_">> \o redis \o <<"_", "1">> }

\* and the container of a service docker-compose ps --services does not list
ContainerNames == ServiceContainers \cup { <<"proj", "_", "mongo", "_", "1">> }

conducto_network == <<"conducto_network_", "id7">>
default_network == <<"proj", "_", "default">>
extra_network == <<"extra", "_", "id7">>

\* NetworkSettings.Networks of a container that holds addresses: on the pipeline's
\* network and the project's, on the pipeline's alone, on the project's alone
AddressedNetworks ==
    { << [name |-> conducto_network, IPAddress |-> "10.0.0.5"],
         [name |-> default_network, IPAddress |-> "172.17.0.2"] >>,
      << [name |-> conducto_network, IPAddress |-> "10.0.0.6"] >>,
      << [name |-> default_network, IPAddress |-> "172.17.0.2"] >> }

\* of a container that has exited: the networks stay, the addresses are released
ReleasedNetworks ==
    { << [name |-> conducto_network, IPAddress |-> ""],
         [name |-> default_network, IPAddress |-> ""] >> }

Inspection(n, s, w) ==
    [Name |-> n, State |-> [Status |-> s], NetworkSettings |-> [Networks |-> w]]

\* client.inspect_container(container_id)
Inspections ==
    {Inspection(n, s, w) : n \in ServiceContainers, s \in {"running", "paused"},
                           w \in AddressedNetworks}
    \cup {Inspection(n, "exited", w) : n \in ContainerNames, w \in ReleasedNetworks}

NoInspection ==
    [Name |-> <<>>, State |-> [Status |-> "none"], NetworkSettings |-> [Networks |-> <<>>]]

NoIpResult == [raised |-> FALSE, none |-> TRUE]

\* the examine variables before any run, and in a specification without examine
ExamineUnused ==
    /\ store = EmptyDict
    /\ epc = "idle"
    /\ service_names = <<>>
    /\ seen = {}
    /\ runs = 0
    /\ writes = <<>>
    /\ lastInspection = NoInspection
    /\ lastService = <<>>
    /\ latest = EmptyDict
    /\ ipRun = EmptyDict
    /\ ipFrom = EmptyDict
    /\ ipQuery = NoInspection
    /\ ipResult = NoIpResult

\* examine up to its loop: the two docker-compose ps calls
ExamineBegin ==
    /\ epc \in {"idle", "raised"}
    /\ runs < MaxRuns
    /\ \E names \in ServiceNameLists : service_names' = names
    /\ epc' = "examining"
    /\ seen' = {}
    /\ runs' = runs + 1
    /\ latest' = EmptyDict
    /\ writes' = <<>>
    /\ lastInspection' = NoInspection
    /\ lastService' = <<>>
    /\ UNCHANGED <<store, ipRun, ipFrom, ipQuery, ipResult, anchorVars, pipelineVars>>

\* one pass of the loop over container_ids
ExamineNext ==
    /\ epc = "examining"
    /\ Cardinality(seen) < MaxContainers
    /\ \E inspection \in Inspections :
          /\ inspection.Name \notin seen
          /\ LET r == ExamineContainer(store, service_names, inspection, pipeline_id)
                 ipWritten == Len(r.writes) = 4
             IN  /\ store' = r.store
                 /\ writes' = r.writes
                 /\ lastService' = r.service
                 /\ epc' = IF r.raised THEN "raised" ELSE "examining"
                 /\ latest' = IF r.service = <<>> THEN latest
                              ELSE SetKey(latest, r.service, inspection)
                 /\ ipRun' = IF ipWritten THEN SetKey(ipRun, r.service, runs) ELSE ipRun
                 /\ ipFrom' = IF ipWritten THEN SetKey(ipFrom, r.service, inspection)
                              ELSE ipFrom
          /\ lastInspection' = inspection
          /\ seen' = seen \cup {inspection.Name}
    /\ UNCHANGED <<service_names, runs, ipQuery, ipResult, anchorVars, pipelineVars>>

\* the loop is exhausted: examine returns, and its locals are gone
ExamineReturn ==
    /\ epc = "examining"
    /\ seen # {}
    /\ epc' = "idle"
    /\ service_names' = <<>>
    /\ seen' = {}
    /\ writes' = <<>>
    /\ lastInspection' = NoInspection
    /\ lastService' = <<>>
    /\ UNCHANGED <<store, runs, latest, ipRun, ipFrom, ipQuery, ipResult,
                   anchorVars, pipelineVars>>

\* a later node calls ip(service_name) for a service whose inspection is stored.
\* ip reads the store and writes nothing, so nothing new follows the call.
CallIp ==
    /\ epc \in {"idle", "raised"}
    /\ \E service_name \in {st2api, st2, redis} :
          /\ Key(service_name, INSPECT) \in DOMAIN store
          /\ ipQuery' = store[Key(service_name, INSPECT)]
          /\ ipResult' = Ip(store, service_name, pipeline_id)
    /\ epc' = "called"
    /\ UNCHANGED <<store, service_names, seen, runs, writes, lastInspection,
                   lastService, latest, ipRun, ipFrom, anchorVars, pipelineVars>>

NextExamine ==
    \/ ExamineBegin
    \/ ExamineNext
    \/ ExamineReturn

InitExamine == ExamineUnused /\ AnchorUnused /\ PipelineUnused

SpecExamine == InitExamine /\ [][NextExamine]_vars

\* ---- ip over every stored inspection

\* most networks of an inspection handed to ip
MaxNetworks == 2

NetworkEntries ==
    { [name |-> n, IPAddress |-> a] :
        n \in {conducto_network, default_network, extra_network},
        a \in {"", "10.0.0.5", "172.17.0.2"} }

\* Networks is a dict: no name twice
NetworkDicts ==
    { w \in SeqsUpTo(NetworkEntries, MaxNetworks) :
        \A i, j \in 1..Len(w) : i # j => w[i].name # w[j].name }

InitIp ==
    /\ AnchorUnused
    /\ PipelineUnused
    /\ \E w \in NetworkDicts, s \in {"running", "exited"} :
          store = StoreInspect(EmptyDict, st2api,
                      Inspection(<<"proj", "_">> \o st2api \o <<"_", "1">>, s, w))
    /\ epc = "idle"
    /\ service_names = <<>>
    /\ seen = {}
    /\ runs = 0
    /\ writes = <<>>
    /\ lastInspection = NoInspection
    /\ lastService = <<>>
    /\ latest = EmptyDict
    /\ ipRun = EmptyDict
    /\ ipFrom = EmptyDict
    /\ ipQuery = NoInspection
    /\ ipResult = NoIpResult

NextIp == CallIp

SpecIp == InitIp /\ [][NextIp]_vars

\* ------------------------------------------------------------------ actions

InitAnchor ==
    /\ pc = "start"
    /\ d \in Documents
    /\ orig = d
    /\ path \in ComposePaths
    /\ result = NoDocument
    /\ again = NoDocument
    /\ volumes = EmptyDict
    /\ stagedFile = NoDocument
    /\ ExamineUnused
    /\ PipelineUnused

\* altered = anchored(d, path)
CallAnchored ==
    /\ pc = "start"
    /\ result' = Anchored(d, path).ret
    /\ d' = Anchored(d, path).arg
    /\ pc' = "anchored"
    /\ UNCHANGED <<examineVars, pipelineVars, orig, path, again, volumes, stagedFile>>

\* anchored applied to the document it returned
CallAnchoredAgain ==
    /\ pc = "anchored"
    /\ again' = Anchored(result, path).ret
    /\ result' = Anchored(result, path).arg
    /\ pc' = "again"
    /\ UNCHANGED <<examineVars, pipelineVars, d, orig, path, volumes, stagedFile>>

\* updown's call of stage: compose.stage(source, volumes=get_dev_mounts(st2path))
\* when st2path is given, compose.stage(source) otherwise.  The document is read
\* from the source file, so d is what the file holds.
CallStage ==
    /\ pc = "start"
    /\ \E vols \in {EmptyDict} \cup {get_dev_mounts(p) : p \in DevPaths} :
          /\ volumes' = vols
          /\ stagedFile' = Stage(d, path, vols)
    /\ pc' = "staged"
    /\ UNCHANGED <<examineVars, pipelineVars, d, orig, path, result, again>>

\* stage when source.is_file() is false: FileNotFoundError, nothing written
CallStageNotFound ==
    /\ pc = "start"
    /\ pc' = "notfound"
    /\ UNCHANGED <<examineVars, pipelineVars, d, orig, path, result, again, volumes, stagedFile>>

NextAnchor ==
    \/ CallAnchored
    \/ CallAnchoredAgain
    \/ CallStage
    \/ CallStageNotFound

SpecAnchor == InitAnchor /\ [][NextAnchor]_vars

\* ------------------------------------------------------------------ pipeline nodes

\* co.Exec, co.Serial, co.Parallel, co.Lazy: a node is its kind, the names of
\* its children in the order they were attached, and its two flags
Exec(command) ==
    [kind |-> "Exec", children |-> <<>>, stop_on_error |-> TRUE, skip |-> FALSE,
     body |-> command]

Serial(children, stop_on_error) ==
    [kind |-> "Serial", children |-> children, stop_on_error |-> stop_on_error,
     skip |-> FALSE, body |-> <<>>]

Parallel(children) ==
    [kind |-> "Parallel", children |-> children, stop_on_error |-> TRUE,
     skip |-> FALSE, body |-> <<>>]

Lazy(builder) ==
    [kind |-> "Lazy", children |-> <<>>, stop_on_error |-> TRUE, skip |-> FALSE,
     body |-> builder]

\* st2path=None
None == <<>>

\* compose.up(), with the child updown attaches as root["up/wait for actually up"]
UpNodes ==
    ("up" :> Serial(<<"start services", "collect metadata", "wait for actually up">>, TRUE))
    @@ ("start services" :> Exec(<<"docker-compose", "-f", staged, "up", "-d">>))
    @@ ("collect metadata" :> Exec(<<"examine", staged>>))
    @@ ("wait for actually up" :> Exec(<<"sleep", "20">>))

\* compose.down(), and root["go/down"].skip = True when st2path is given
DownNode(st2path_) ==
    [Exec(<<"docker-compose", "-f", staged, "down">>) EXCEPT !.skip = (st2path_ # None)]

\* all_tests()
AllTestsNodes ==
    ("all tests" :> Parallel(<<"call st2client via compose", "assert st2client response",
                               "lazy tests">>))
    @@ ("call st2client via compose" :>
            Exec(<<"docker-compose", "-f", staged, "exec", "-T", "st2client",
                   "st2 action list --pack=core">>))
    @@ ("assert st2client response" :>
            Exec(<<"docker-compose", "-f", staged, "exec", "-T", "st2client",
                   "st2 action list --pack=core", "| grep 'local_sudo'">>))
    @@ ("lazy tests" :> Lazy("lazy_tests"))

\* as RootNode, with stop_on_error off
RootNode_KeepGoing == Serial(<<"up", "go">>, FALSE)

\* root = co.Serial(image=img, requires_docker=True)
RootNode == Serial(<<"up", "go">>, TRUE)

\* as GoNode, with stop_on_error left at its default
GoNode_StopOnError == Serial(<<"all tests", "down">>, TRUE)

\* root["go"] = co.Serial(stop_on_error=False), with its two children
GoNode == Serial(<<"all tests", "down">>, FALSE)

\* updown(st2path): the tree it returns
updown(st2path_) ==
    ("root" :> RootNode)
    @@ UpNodes
    @@ ("go" :> GoNode)
    @@ AllTestsNodes
    @@ ("down" :> DownNode(st2path_))

\* lazy_tests(): compose.ip("st2api") is read for each of the two services; the
\* read of a missing fact and the exception of ip both end the builder
lazy_tests(st) ==
    IF Key(st2api, INSPECT) \notin DOMAIN st
    THEN [raised |-> TRUE, nodes |-> EmptyDict]
    ELSE LET r == Ip(st, st2api, pipeline_id)
         IN  IF r.raised
             THEN [raised |-> TRUE, nodes |-> EmptyDict]
             ELSE [raised |-> FALSE,
                   nodes |-> ("generated" :> Parallel(<<"ping st2api", "ping st2auth">>))
                             @@ ("ping st2api" :> Exec(<<"ping", "-c", "2", r.conducto>>))
                             @@ ("ping st2auth" :> Exec(<<"ping", "-c", "2", r.conducto>>))]

\* examine(path_to_yml) over the containers docker-compose ps -q lists
RECURSIVE examine(_, _, _, _)
examine(st, names, inspections, pid) ==
    IF inspections = <<>> THEN [store |-> st, raised |-> FALSE]
    ELSE LET r == ExamineContainer(st, names, Head(inspections), pid)
         IN  IF r.raised THEN [store |-> r.store, raised |-> TRUE]
             ELSE examine(r.store, names, Tail(inspections), pid)

\* what docker reports when "collect metadata" runs: every service up; st2api
\* exited; st2api up outside the pipeline's network; st2api without a container
DockerReports ==
    LET c(service) == <<"proj", "_">> \o service \o <<"_", "1">>
        both == << [name |-> conducto_network, IPAddress |-> "10.0.0.5"],
                   [name |-> default_network, IPAddress |-> "172.17.0.2"] >>
        gone == << [name |-> conducto_network, IPAddress |-> ""],
                   [name |-> default_network, IPAddress |-> ""] >>
        own == << [name |-> default_network, IPAddress |-> "172.17.0.2"] >>
    IN  { << Inspection(c(st2api), "running", both), Inspection(c(redis), "running", both) >>,
          << Inspection(c(st2api), "exited", gone), Inspection(c(redis), "running", both) >>,
          << Inspection(c(st2api), "running", own) >>,
          << Inspection(c(redis), "running", both) >> }

\* ------------------------------------------------------------------ pipeline runtime
\* The runtime that executes the nodes is the conducto service; its rules are
\* those of the design document: Serial in order, stopping at the first error
\* unless stop_on_error is off; Parallel in any order; Lazy built when reached;
\* a skipped node succeeds without running.

Finished(n) == status[n] \in {"done", "error"}

Parent(n) ==
    CHOOSE p \in DOMAIN tree : \E i \in 1..Len(tree[p].children) : tree[p].children[i] = n

\* child n of the running node p may start
Eligible(p, n) ==
    /\ status[p] = "running"
    /\ status[n] = "pending"
    /\ tree[p].kind = "Serial" =>
          \E i \in 1..Len(tree[p].children) :
              /\ tree[p].children[i] = n
              /\ \A j \in 1..(i - 1) :
                    /\ Finished(tree[p].children[j])
                    /\ tree[p].stop_on_error => status[tree[p].children[j]] = "done"

AnyChildError(p) ==
    \E i \in 1..Len(tree[p].children) : status[tree[p].children[i]] = "error"

AllChildrenFinished(p) ==
    \A i \in 1..Len(tree[p].children) : Finished(tree[p].children[i])

\* python conducto/pipeline.py updown [st2path]
Updown ==
    /\ phase = "unbuilt"
    /\ \E p \in {None} \cup DevPaths :
          /\ st2path' = p
          /\ tree' = updown(p)
          /\ status' = [n \in DOMAIN updown(p) |-> "pending"]
    /\ phase' = "built"
    /\ UNCHANGED <<ran, builderCalls, anchorVars, examineVars>>

\* the runtime starts on the root
Launch ==
    /\ phase = "built"
    /\ phase' = "running"
    /\ status' = [status EXCEPT !["root"] = "running"]
    /\ UNCHANGED <<st2path, tree, ran, builderCalls, anchorVars, examineVars>>

\* a node with skip set counts as done; its body does not run
SkipNode ==
    /\ phase = "running"
    /\ \E n \in DOMAIN tree \ {"root"} :
          /\ Eligible(Parent(n), n)
          /\ tree[n].skip
          /\ status' = [status EXCEPT ![n] = "done"]
    /\ UNCHANGED <<phase, st2path, tree, ran, builderCalls, anchorVars, examineVars>>

\* a Serial or Parallel node starts
StartComposite ==
    /\ phase = "running"
    /\ \E n \in DOMAIN tree \ {"root"} :
          /\ Eligible(Parent(n), n)
          /\ ~tree[n].skip
          /\ tree[n].kind \in {"Serial", "Parallel"}
          /\ status' = [status EXCEPT ![n] = "running"]
          /\ ran' = ran \cup {n}
    /\ UNCHANGED <<phase, st2path, tree, builderCalls, anchorVars, examineVars>>

\* an Exec node starts: its command runs
StartExec ==
    /\ phase = "running"
    /\ \E n \in DOMAIN tree \ {"root"} :
          /\ Eligible(Parent(n), n)
          /\ ~tree[n].skip
          /\ tree[n].kind = "Exec"
          /\ status' = [status EXCEPT ![n] = "running"]
          /\ ran' = ran \cup {n}
    /\ UNCHANGED <<phase, st2path, tree, builderCalls, anchorVars, examineVars>>

\* a command other than examine ends, with exit status zero or not
FinishExec ==
    /\ \E n \in DOMAIN tree :
          /\ tree[n].kind = "Exec"
          /\ n # "collect metadata"
          /\ status[n] = "running"
          /\ \E s \in {"done", "error"} : status' = [status EXCEPT ![n] = s]
    /\ UNCHANGED <<phase, st2path, tree, ran, builderCalls, anchorVars, examineVars>>

\* "collect metadata" ends: examine has run over what docker reports
FinishCollect ==
    /\ "collect metadata" \in DOMAIN tree
    /\ status["collect metadata"] = "running"
    /\ \E report \in DockerReports :
          LET r == examine(store, <<st2api, redis>>, report, pipeline_id)
          IN  /\ store' = r.store
              /\ status' = [status EXCEPT !["collect metadata"] =
                                IF r.raised THEN "error" ELSE "done"]
    /\ UNCHANGED <<phase, st2path, tree, ran, builderCalls, anchorVars,
                   epc, service_names, seen, runs, writes, lastInspection,
                   lastService, latest, ipRun, ipFrom, ipQuery, ipResult>>

\* the runtime reaches a Lazy node: the builder is called, and the subtree it
\* returns is attached below the node
ReachLazy ==
    /\ phase = "running"
    /\ \E n \in DOMAIN tree \ {"root"} :
          /\ Eligible(Parent(n), n)
          /\ ~tree[n].skip
          /\ tree[n].kind = "Lazy"
          /\ builderCalls' = builderCalls + 1
          /\ ran' = ran \cup {n}
          /\ LET built == lazy_tests(store)
             IN  IF built.raised
                 THEN /\ status' = [status EXCEPT ![n] = "error"]
                      /\ tree' = tree
                 ELSE /\ tree' = [tree EXCEPT ![n].children = <<"generated">>] @@ built.nodes
                      /\ status' = [status EXCEPT ![n] = "running"]
                                   @@ [m \in DOMAIN built.nodes |-> "pending"]
    /\ UNCHANGED <<phase, st2path, anchorVars, examineVars>>

\* a running Serial, Parallel or Lazy node ends once nothing below it is left
\* to run: in error exactly when a child ended in error
FinishComposite ==
    /\ \E n \in DOMAIN tree :
          /\ tree[n].kind \in {"Serial", "Parallel", "Lazy"}
          /\ status[n] = "running"
          /\ \A i \in 1..Len(tree[n].children) : status[tree[n].children[i]] # "running"
          /\ \/ AllChildrenFinished(n)
             \/ tree[n].kind = "Serial" /\ tree[n].stop_on_error /\ AnyChildError(n)
          /\ status' = [status EXCEPT ![n] = IF AnyChildError(n) THEN "error" ELSE "done"]
          /\ phase' = IF n = "root" THEN "over" ELSE phase
    /\ UNCHANGED <<st2path, tree, ran, builderCalls, anchorVars, examineVars>>

NextPipeline ==
    \/ Updown
    \/ Launch
    \/ SkipNode
    \/ StartComposite
    \/ StartExec
    \/ FinishExec
    \/ FinishCollect
    \/ ReachLazy
    \/ FinishComposite

InitPipeline == PipelineUnused /\ ExamineUnused /\ AnchorUnused

SpecPipeline == InitPipeline /\ [][NextPipeline]_vars

\* ------------------------------------------------------------------ properties

\* ---- anchored / stage

\* C1: anchored never mutates its input: once it has returned, the document it
\* was handed, with every nested structure, equals what it was before the call.
C1_InputNotMutated == pc = "anchored" => d = orig

\* the place of the first ":" of a mount string, one past its end when it has none
FirstColon(v) ==
    IF \E i \in 1..Len(v) : v[i] = ":"
    THEN CHOOSE i \in 1..Len(v) : v[i] = ":" /\ \A j \in 1..(i - 1) : v[j] # ":"
    ELSE Len(v) + 1

\* the mount string the claim expects for v: the host part, when it starts with
\* "./", re-rooted at dir, the rest as it was
ExpectedMount(v, dir) ==
    IF FirstColon(v) > 2 /\ v[1] = "." /\ v[2] = "/"
    THEN dir \o <<"/">> \o SubSeq(v, 3, FirstColon(v) - 1) \o <<":">>
             \o SubSeq(v, FirstColon(v) + 1, Len(v))
    ELSE v

VolumesRewritten(doc, dir) ==
    \A s \in DOMAIN orig["services"] :
        LET before == orig["services"][s]
            after == doc["services"][s]
        IN  /\ "volumes" \in DOMAIN after <=> "volumes" \in DOMAIN before
            /\ "volumes" \in DOMAIN before =>
                  /\ Len(after["volumes"]) = Len(before["volumes"])
                  /\ \A i \in 1..Len(before["volumes"]) :
                        after["volumes"][i] = ExpectedMount(before["volumes"][i], dir)

\* the directory that holds the compose file of each path explored
ComposeDirectory ==
    IF path = <<"/", "host", "/", "proj", "/", "docker-compose", ".", "yml">>
    THEN <<"/", "host", "/", "proj">>
    ELSE <<"/">>

\* C2 as claimed: every "./" mount string is re-rooted at the path handed to the
\* transform, every other one is unchanged, a service without volumes is passed over.
C2_AnchoredAtPathPassed ==
    /\ pc \in {"anchored", "again"} => VolumesRewritten(result, path)
    /\ pc = "staged" => VolumesRewritten(stagedFile, path)

\* C2 as amended: every "./" mount string is re-rooted at the parent directory
\* of the path handed to the transform (the path of docker-compose.yml), every
\* other one is unchanged, a service without volumes is passed over.
C2_AnchoredAtParentOfPath ==
    /\ pc \in {"anchored", "again"} => VolumesRewritten(result, ComposeDirectory)
    /\ pc = "staged" => VolumesRewritten(stagedFile, ComposeDirectory)

C2_Witness ==
    /\ pc = "anchored"
    /\ DOMAIN orig["services"] = {"st2api", "redis"}
    /\ "volumes" \notin DOMAIN orig["services"]["redis"]
    /\ "volumes" \in DOMAIN orig["services"]["st2api"]
    /\ orig["services"]["st2api"]["volumes"]
           = << <<".", "/", "data", ":", "/", "data", ":", "ro">> >>
    /\ result["services"]["st2api"]["volumes"]
           = << <<"/", "host", "/", "proj", "/", "data", ":", "/", "data", ":", "ro">> >>

\* C3: when stage is given volume overrides, the staged volume list of each
\* service with an entry holds the supplied mount string as given, and a service
\* without an entry gets no mount beyond its own.
C3_OverridesStaged ==
    pc = "staged" =>
        \A s \in DOMAIN stagedFile["services"] :
            IF s \in DOMAIN volumes
            THEN /\ "volumes" \in DOMAIN stagedFile["services"][s]
                 /\ \E i \in 1..Len(stagedFile["services"][s]["volumes"]) :
                       stagedFile["services"][s]["volumes"][i] = volumes[s]
            ELSE "volumes" \in DOMAIN stagedFile["services"][s] =>
                    /\ "volumes" \in DOMAIN orig["services"][s]
                    /\ Len(stagedFile["services"][s]["volumes"])
                           = Len(orig["services"][s]["volumes"])

ConductoOnce(doc) ==
    /\ \A s \in DOMAIN doc["services"] :
          /\ "networks" \in DOMAIN doc["services"][s]
          /\ Cardinality({i \in 1..Len(doc["services"][s]["networks"]) :
                             doc["services"][s]["networks"][i] = "conducto"}) = 1
    /\ "networks" \in DOMAIN doc
    /\ "conducto" \in DOMAIN doc["networks"]
    /\ "external" \in DOMAIN doc["networks"]["conducto"]
    /\ doc["networks"]["conducto"]["external"]
           = [name |-> <<"conducto_network_", "$CONDUCTO_PIPELINE_ID">>]

\* C4: in the document anchored returns every service lists the network
\* "conducto" exactly once, whatever its list was before, and the top-level
\* networks hold "conducto" as external under the template name; anchored
\* applied to its own output adds no second occurrence.
C4_ConductoExactlyOnce ==
    /\ pc \in {"anchored", "again"} => ConductoOnce(result)
    /\ pc = "again" => ConductoOnce(again)
    /\ pc = "staged" => ConductoOnce(stagedFile)

C4_Witness ==
    /\ pc = "again"
    /\ DOMAIN orig["services"] = {"st2api", "redis"}
    /\ "networks" \notin DOMAIN orig["services"]["redis"]
    /\ "networks" \in DOMAIN orig["services"]["st2api"]
    /\ orig["services"]["st2api"]["networks"] = <<"backend", "conducto">>
    /\ again["services"]["st2api"]["networks"] = <<"backend", "conducto">>
    /\ again["services"]["redis"]["networks"] = <<"conducto">>

\* ---- examine / ip

\* the networks of an inspection whose name holds the pipeline's identifier
Matching(networks) ==
    {i \in 1..Len(networks) : Contains(pipeline_id, networks[i].name)}

LastMatching(networks) ==
    CHOOSE i \in Matching(networks) : \A j \in Matching(networks) : j <= i

\* ip gives a partition for this inspection
Resolves(inspection) ==
    LET networks == inspection.NetworkSettings.Networks
    IN  /\ Matching(networks) # {}
        /\ networks[LastMatching(networks)].IPAddress # ""

\* the addresses on the other networks, in the order of the record
OtherAddresses(networks) ==
    LET rest == {i \in 1..Len(networks) : i \notin Matching(networks)}
        nth(k) == CHOOSE i \in rest : Cardinality({j \in rest : j <= i}) = k
    IN  [k \in 1..Cardinality(rest) |-> networks[nth(k)].IPAddress]

Written == {writes[i] : i \in 1..Len(writes)}

\* what a pass of examine that matched a service wrote, given the name of the
\* key of the first ip fact
PassWrote(primary, condition) ==
    LET inspect == <<"/", "services", "/">> \o lastService \o <<"/", "inspect">>
        stat == <<"/", "services", "/">> \o lastService \o <<"/", "status">>
        first == <<"/", "services", "/">> \o lastService \o <<"/", "ip", "/", primary>>
        others == <<"/", "services", "/">> \o lastService \o <<"/", "ip", "/", "others">>
    IN  /\ inspect \in Written /\ store[inspect] = lastInspection
        /\ stat \in Written /\ store[stat] = lastInspection.State.Status
        /\ {first, others} \subseteq Written <=> condition
        /\ ~condition => {first, others} \cap Written = {}
        /\ Written \subseteq {inspect, stat, first, others}

\* C5 as claimed: for a matched container examine writes inspect and status,
\* writes ip/primary and ip/others exactly when the status is "running", and
\* writes no other key.
C5_FactsUnderPrimary ==
    /\ (epc \in {"examining", "raised"} /\ lastService # <<>>) =>
          PassWrote("primary", lastInspection.State.Status = "running")
    /\ (epc = "examining" /\ lastService = <<>>) => Written = {}

\* C5 as amended: for a matched container examine writes inspect and status,
\* writes ip/conducto and ip/others exactly when the status is "running" and ip
\* gives a partition, and writes no other key; when the status is "running" and
\* ip raises, examine ends there with inspect and status written.
C5_FactsUnderConducto ==
    /\ (epc \in {"examining", "raised"} /\ lastService # <<>>) =>
          /\ PassWrote("conducto", lastInspection.State.Status = "running"
                                      /\ Resolves(lastInspection))
          /\ epc = "raised" <=> (lastInspection.State.Status = "running"
                                    /\ ~Resolves(lastInspection))
    /\ (epc = "examining" /\ lastService = <<>>) => Written = {}

C5_Witness ==
    /\ epc = "examining"
    /\ lastService = <<"st2", "api">>
    /\ lastInspection.State.Status = "running"
    /\ Len(writes) = 4
    /\ <<"/", "services", "/", "st2", "api", "/", "ip", "/", "conducto">> \in DOMAIN store

\* C6 as claimed: whenever a network name holds the identifier, ip returns the
\* partition: primary is the address on a network that holds it, others the
\* addresses on the remaining networks, each network in exactly one of the two;
\* when no name holds it, ip raises, naming the identifier and the names examined.
C6_PartitionWheneverMatched ==
    epc = "called" =>
        LET networks == ipQuery.NetworkSettings.Networks
        IN  IF Matching(networks) = {}
            THEN /\ ipResult.raised
                 /\ ipResult.pipeline_id = pipeline_id
                 /\ ipResult.network_names
                        = [i \in 1..Len(networks) |-> networks[i].name]
            ELSE /\ ~ipResult.raised
                 /\ \E i \in Matching(networks) : ipResult.conducto = networks[i].IPAddress
                 /\ ipResult.others = OtherAddresses(networks)
                 /\ Len(ipResult.others) + 1 = Len(networks)

\* C6 as amended: primary is the address on the last network, in the order of
\* the record, whose name holds the identifier, and others the addresses on the
\* networks whose names do not hold it (an address on an earlier matching
\* network is in neither); ip raises, naming the identifier and the names
\* examined, when no name holds the identifier and also when that last address
\* is empty.
C6_PartitionByLastMatch ==
    epc = "called" =>
        LET networks == ipQuery.NetworkSettings.Networks
        IN  IF Resolves(ipQuery)
            THEN /\ ~ipResult.raised
                 /\ ipResult.conducto = networks[LastMatching(networks)].IPAddress
                 /\ ipResult.others = OtherAddresses(networks)
            ELSE /\ ipResult.raised
                 /\ ipResult.pipeline_id = pipeline_id
                 /\ ipResult.network_names
                        = [i \in 1..Len(networks) |-> networks[i].name]

C6_Witness ==
    /\ epc = "called"
    /\ ipQuery.NetworkSettings.Networks
           = << [name |-> <<"conducto_network_", "id7">>, IPAddress |-> "10.0.0.5"],
                [name |-> <<"proj", "_", "default">>, IPAddress |-> "172.17.0.2"] >>
    /\ ~ipResult.raised
    /\ ipResult.conducto = "10.0.0.5"
    /\ ipResult.others = <<"172.17.0.2">>

FactKey(service, kind) == <<"/", "services", "/">> \o service \o <<"/">> \o kind

LatestRecordStored(service) ==
    /\ FactKey(service, <<"inspect">>) \in DOMAIN store
    /\ store[FactKey(service, <<"inspect">>)] = latest[service]
    /\ FactKey(service, <<"status">>) \in DOMAIN store
    /\ store[FactKey(service, <<"status">>)] = latest[service].State.Status

HasIpFacts(service) ==
    \/ FactKey(service, <<"ip", "/", "conducto">>) \in DOMAIN store
    \/ FactKey(service, <<"ip", "/", "others">>) \in DOMAIN store

\* C9 as claimed: after completed examine runs, every fact readable for a
\* service matched in the latest run derives from that run's inspection: inspect
\* and status are its own, and ip facts are readable only if that run wrote them.
C9_SupersededByLatestRun ==
    (epc = "idle" /\ runs >= 1) =>
        \A service \in DOMAIN latest :
            /\ LatestRecordStored(service)
            /\ HasIpFacts(service) =>
                  /\ service \in DOMAIN ipRun
                  /\ ipRun[service] = runs

\* C9 as amended: after completed examine runs, for every service matched in the
\* latest run inspect and status are those of that run's inspection; the ip
\* facts readable are those of the most recent run, the latest or an earlier
\* one, in which the service's container was running and ip gave a partition,
\* and stay readable next to a later status that is not "running".
C9_SupersededKeyByKey ==
    (epc = "idle" /\ runs >= 1) =>
        \A service \in DOMAIN latest :
            /\ LatestRecordStored(service)
            /\ HasIpFacts(service) =>
                  /\ service \in DOMAIN ipRun
                  /\ ipRun[service] \in 1..runs
                  /\ ipFrom[service].State.Status = "running"
                  /\ Resolves(ipFrom[service])
                  /\ store[FactKey(service, <<"ip", "/", "conducto">>)]
                        = LET w == ipFrom[service].NetworkSettings.Networks
                          IN  w[LastMatching(w)].IPAddress
                  /\ store[FactKey(service, <<"ip", "/", "others">>)]
                        = OtherAddresses(ipFrom[service].NetworkSettings.Networks)
                  /\ ipRun[service] = runs => ipFrom[service] = latest[service]
                  /\ (latest[service].State.Status = "running" /\ Resolves(latest[service]))
                        => ipRun[service] = runs

C9_Witness ==
    /\ epc = "idle"
    /\ runs = 2
    /\ <<"st2", "api">> \in DOMAIN latest
    /\ latest[<<"st2", "api">>].State.Status = "exited"
    /\ store[FactKey(<<"st2", "api">>, <<"status">>)] = "exited"
    /\ FactKey(<<"st2", "api">>, <<"ip", "/", "conducto">>) \in DOMAIN store
    /\ ipRun[<<"st2", "api">>] = 1

\* ---- the pipeline

Ended(n) == n \in DOMAIN status /\ status[n] \in {"done", "error"}

\* C7: "go" runs "all tests" then "down" with stop-on-error off: "down" runs
\* only after "all tests" has ended, it does run whenever "go" has run and "down"
\* is not skipped, whether "all tests" succeeded or failed, and "go" ends in
\* error exactly when one of its two children did.
C7_DownAfterAllTests ==
    phase # "unbuilt" =>
        /\ "down" \in ran => ("all tests" \in ran /\ Ended("all tests"))
        /\ ("go" \in ran /\ Ended("go")) =>
              /\ "all tests" \in ran /\ Ended("all tests") /\ Ended("down")
              /\ ~tree["down"].skip => "down" \in ran
              /\ status["go"] = "error" <=>
                    (status["all tests"] = "error" \/ status["down"] = "error")

C7_Witness ==
    /\ phase # "unbuilt"
    /\ Ended("go")
    /\ status["all tests"] = "error"
    /\ "down" \in ran
    /\ status["down"] = "done"
    /\ status["go"] = "error"

GeneratedNodes == {"generated", "ping st2api", "ping st2auth"}

C8_State ==
    /\ phase \in {"unbuilt", "built"} => builderCalls = 0
    /\ builderCalls <= 1
    /\ phase # "unbuilt" =>
          /\ builderCalls = 1 <=> status["lazy tests"] # "pending"
          /\ builderCalls = 1 =>
                /\ status["collect metadata"] = "done"
                /\ "collect metadata" \in ran
          /\ GeneratedNodes \cap DOMAIN tree # {} =>
                /\ builderCalls = 1
                /\ <<"/", "services", "/", "st2", "api", "/", "inspect">> \in DOMAIN store
          /\ GeneratedNodes \cap ran # {} => builderCalls = 1

\* C8: lazy_tests is not called while the tree is built; it is called once, when
\* the runtime reaches "lazy tests", which is after "collect metadata" has ended
\* without error; so the builder's reads of the store come after every write of
\* examine, and before any node the builder returns has run.
C8_BuilderOnceAfterExamine ==
    /\ []C8_State
    /\ [][/\ builderCalls >= 1 => store' = store
          /\ builderCalls' > builderCalls => GeneratedNodes \cap ran' = {}]_vars

C8_Witness ==
    /\ builderCalls = 1
    /\ "ping st2api" \in ran
    /\ "ping st2auth" \in ran

\* C10: built without st2path, every execution in which "start services" has
\* run and succeeded has run "down" by the time the pipeline is over, whichever
\* later step failed;
\* built with st2path, "down" is skipped and never runs.
C10_DownAlwaysRuns ==
    (phase = "over" /\ "start services" \in ran /\ status["start services"] = "done") =>
        IF st2path = None THEN "down" \in ran ELSE "down" \notin ran

====
